---- MODULE Spec2Model ----
(***************************************************************************)
(* Model of package validating (builtin.go): the validator constructors    *)
(* FromFunc, All/And, Any/Or, Nested, NestedMulti, Assert, Lazy, Nonzero   *)
(* and Len, the message helper getMsg, and the Validate method of the      *)
(* validators they build.                                                  *)
(*                                                                         *)
(* A validator is the record FromFunc builds around a closure; a closure   *)
(* is a record holding the name of the function literal (fn) and the       *)
(* variables it captured.  Validate(v, field, st) runs the closure and     *)
(* returns the Errors it yields together with the effects of the call.     *)
(***************************************************************************)
EXTENDS Integers, Sequences, FiniteSets, TLC

(* ------------------------------ bounds -------------------------------- *)
\* longest string / slice held by a memory cell
MaxLen == 2
\* min and max of Len range over 0..MaxBound
MaxBound == 2
\* most children given to All / Any
MaxChildren == 2
\* most entries of a Schema
MaxEntries == 2
\* most Validate calls in one run
MaxCalls == 2

(* ------------------------- values and memory -------------------------- *)
\* element types named by the type switches of Nonzero and Len
NumericTypes == {"uint8", "uint16", "uint32", "uint64", "int8", "int16", "int32",
                 "int64", "float32", "float64", "uint", "int"}

BaseTypes == NumericTypes \cup {"bool", "string", "time.Time"}

\* a struct type such as Address: in none of the type switches
OtherTypes == {"Address"}

\* the three pointer shapes of the type switches: *T, **T, *[]T
Shapes == {"*T", "**T", "*[]T"}

\* time.Time is modelled by the number of days since January 1, year 1 UTC;
\* day 0 is the zero instant, day 719162 the Unix epoch
ScalarValues(T) ==
    CASE T \in NumericTypes -> {0, 1}
      [] T = "bool"         -> {FALSE, TRUE}
      [] T = "string"       -> {SubSeq("abcdefgh", 1, n) : n \in 0..MaxLen}
      [] T = "time.Time"    -> {0, 719162}
      [] OTHER              -> {"struct"}

ZeroValue(T) ==
    CASE T \in NumericTypes -> 0
      [] T = "bool"         -> FALSE
      [] T = "string"       -> ""
      [] T = "time.Time"    -> 0
      [] OTHER              -> "struct"

IsZero(t) == t = 0

\* the elements slices are filled with: the zero value and one other
ElemValues(T) == IF T = "string" THEN {"", "a"} ELSE ScalarValues(T)

\* what a cell of pointer type (shape, T) can hold; a nil pointer is written
\* as absent, with the zero value in the place of the value it lacks
CellValues(shape, T) ==
    CASE shape = "*T"   -> ScalarValues(T)
      [] shape = "**T"  -> {[present |-> FALSE, elem |-> ZeroValue(T)]}
                              \cup [present : {TRUE}, elem : ScalarValues(T)]
      [] shape = "*[]T" -> UNION {[1..n -> ElemValues(T)] : n \in 0..MaxLen}

(* ------------------------- Field, Error, Errors ----------------------- *)
F(name, valuePtr) == [Name |-> name, ValuePtr |-> valuePtr]

NilErrors == [isNil |-> TRUE, recs |-> <<>>]

NewErrors(field, msg) == [isNil |-> FALSE, recs |-> <<[Field |-> field, Msg |-> msg]>>]

\* Extend appends errs to the receiver: a nil slice stays nil when nothing is appended
Extend(e, errs) ==
    [isNil |-> e.isNil /\ Len(errs.recs) = 0, recs |-> e.recs \o errs.recs]

(* ------------------------------ getMsg -------------------------------- *)
\* (the backquotes of the source's messages are written as apostrophes)
Panic(text) == [panic |-> text]

IsPanic(x) == "panic" \in DOMAIN x

\* getMsg as it would be if it took the first of several messages
getMsgTakesFirst(validatorName, defaultMsg, msgs) ==
    IF Len(msgs) = 0 THEN [msg |-> defaultMsg] ELSE [msg |-> msgs[1]]

getMsg(validatorName, defaultMsg, msgs) ==
    CASE Len(msgs) = 0 -> [msg |-> defaultMsg]
      [] Len(msgs) = 1 -> [msg |-> msgs[1]]
      [] OTHER         -> Panic(validatorName \o " only accepts at most one 'msg'!")

(* ---------------------------- constructors ---------------------------- *)
FromFunc(f) == [f |-> f]

All(validators) == FromFunc([fn |-> "All", validators |-> validators])

And(validators) == All(validators)

AnyValidator(validators) == FromFunc([fn |-> "Any", validators |-> validators])

Or(validators) == AnyValidator(validators)

Nested(schema) == FromFunc([fn |-> "Nested", schema |-> schema])

AssertValidator(b, msgs) ==
    LET m == getMsg("Assert", "is invalid", msgs)
    IN  IF IsPanic(m) THEN m ELSE FromFunc([fn |-> "Assert", b |-> b, msg |-> m.msg])

Lazy(f) == FromFunc([fn |-> "Lazy", factory |-> f])

Nonzero(msgs) ==
    LET m == getMsg("Nonzero", "is zero valued", msgs)
    IN  IF IsPanic(m) THEN m ELSE FromFunc([fn |-> "Nonzero", msg |-> m.msg])

LenValidator(min, max, msgs) ==
    LET m == getMsg("Len", "with an invalid length", msgs)
    IN  IF IsPanic(m) THEN m
        ELSE FromFunc([fn |-> "Len", min |-> min, max |-> max, msg |-> m.msg])


(* ------------------------- effects of a call -------------------------- *)
\* The state a Validate call runs in and changes:
\*   mem   the memory the value pointers refer to (read only),
\*   fc    how many times each factory function has been called,
\*   ords  the orders in which the coming range loops over Schemas will run,
\*   log   the leaf closures and factories invoked, in order,
\*   reads the pointers dereferenced.
Logged(st, op, at) == [st EXCEPT !.log = Append(@, [op |-> op, at |-> at])]

Deref(st, ptr) == [st EXCEPT !.reads = @ \cup {ptr}]

\* f(): the factory returns its results in turn, by the number of calls so far
FactoryResult(f, count) == f.rets[(count % Len(f.rets)) + 1]

CallFactory(f, st) ==
    [ret |-> FactoryResult(f, st.fc[f.id]),
     st  |-> Logged([st EXCEPT !.fc[f.id] = @ + 1], "factory", f.id)]

(* -------------------- range over a Schema (a Go map) ------------------ *)
Injective(s) == \A i, j \in DOMAIN s : s[i] = s[j] => i = j

\* some fixed listing of the keys
KeyList(keys) == CHOOSE s \in [1..Cardinality(keys) -> keys] : Injective(s)

\* the keys in the order a permutation ord of 1..m puts them (m >= |keys|)
Permuted(keys, ord) ==
    LET n == Cardinality(keys)
        base == KeyList(keys)
        rank(i) == Cardinality({j \in 1..n : ord[j] < ord[i]}) + 1
    IN  [k \in 1..n |-> base[CHOOSE i \in 1..n : rank(i) = k]]

\* a range loop over several keys takes the next of the orders st.ords
UsesOrder(keys, st) == Cardinality(keys) >= 2 /\ Len(st.ords) > 0

RangeOrder(keys, st) ==
    IF UsesOrder(keys, st) THEN Permuted(keys, Head(st.ords)) ELSE KeyList(keys)

RangeDone(keys, st) == IF UsesOrder(keys, st) THEN [st EXCEPT !.ords = Tail(@)] ELSE st

(* ------------------------------ Validate ------------------------------ *)
RECURSIVE Validate(_, _, _)
RECURSIVE AllFn(_, _, _, _)
RECURSIVE AnyFn(_, _, _, _, _)
RECURSIVE NestedMultiFn(_, _, _, _, _)
RECURSIVE ValidateEntries(_, _, _, _, _)

\* Validate(schema): every entry's validator is run on the entry's field and
\* the errors are gathered; no failing entry gives nil
ValidateSchema(schema, st) ==
    ValidateEntries(schema, RangeOrder(DOMAIN schema, st), 1, NilErrors,
                    RangeDone(DOMAIN schema, st))

ValidateEntries(schema, order, i, errs, st) ==
    IF i > Len(order) THEN [errs |-> errs, st |-> st]
    ELSE LET r == Validate(schema[order[i]], order[i], st)
         IN  ValidateEntries(schema, order, i + 1,
                             IF r.errs.isNil THEN errs ELSE Extend(errs, r.errs), r.st)

\* All as it would be if it went on after a failure and kept the last errors
RECURSIVE AllFnKeepsGoing(_, _, _, _)
AllFnKeepsGoing(validators, i, field, st) ==
    IF i > Len(validators) THEN [errs |-> NilErrors, st |-> st]
    ELSE LET r == Validate(validators[i], field, st)
             rest == AllFnKeepsGoing(validators, i + 1, field, r.st)
         IN  IF rest.errs.isNil THEN [errs |-> r.errs, st |-> rest.st] ELSE rest

\* closure of All
AllFn(validators, i, field, st) ==
    IF i > Len(validators) THEN [errs |-> NilErrors, st |-> st]
    ELSE LET r == Validate(validators[i], field, st)
         IN  IF ~r.errs.isNil THEN r
             ELSE AllFn(validators, i + 1, field, r.st)

\* Any as it would be if it kept the last child's errors instead of extending
RECURSIVE AnyFnLastOnly(_, _, _, _, _)
AnyFnLastOnly(validators, i, field, errs, st) ==
    IF i > Len(validators) THEN [errs |-> errs, st |-> st]
    ELSE LET r == Validate(validators[i], field, st)
         IN  IF r.errs.isNil THEN [errs |-> NilErrors, st |-> r.st]
             ELSE AnyFnLastOnly(validators, i + 1, field, r.errs, r.st)

\* Any as it would be if errs started as an empty collection instead of nil
RECURSIVE AnyFnStartsEmpty(_, _, _, _, _)
AnyFnStartsEmpty(validators, i, field, errs, st) ==
    IF i > Len(validators) THEN [errs |-> [errs EXCEPT !.isNil = FALSE], st |-> st]
    ELSE LET r == Validate(validators[i], field, st)
         IN  IF r.errs.isNil THEN [errs |-> NilErrors, st |-> r.st]
             ELSE AnyFnStartsEmpty(validators, i + 1, field, Extend(errs, r.errs), r.st)

\* closure of Any
AnyFn(validators, i, field, errs, st) ==
    IF i > Len(validators) THEN [errs |-> errs, st |-> st]
    ELSE LET r == Validate(validators[i], field, st)
         IN  IF r.errs.isNil THEN [errs |-> NilErrors, st |-> r.st]
             ELSE AnyFn(validators, i + 1, field, Extend(errs, r.errs), r.st)

\* the Schema as it would be if the inner names were kept as they are
NestedSchemaBareNames(schema, field) ==
    [k \in {F(f.Name, f.ValuePtr) : f \in DOMAIN schema} |->
        schema[CHOOSE f \in DOMAIN schema : F(f.Name, f.ValuePtr) = k]]

\* the Schema the closure of Nested builds
NestedSchema(schema, field) ==
    LET key(f) == F(field.Name \o "." \o f.Name, f.ValuePtr)
        keys == {key(f) : f \in DOMAIN schema}
    IN  [k \in keys |-> schema[CHOOSE f \in DOMAIN schema : key(f) = k]]

\* closure of Nested
NestedFn(schema, field, st) == ValidateSchema(NestedSchema(schema, field), st)

\* NestedMulti as it would be if it returned at the first failing child
RECURSIVE NestedMultiFnStops(_, _, _, _, _)
NestedMultiFnStops(validators, i, field, errs, st) ==
    IF i > Len(validators) THEN [errs |-> errs, st |-> st]
    ELSE LET r == Validate(validators[i], field, st)
         IN  IF ~r.errs.isNil THEN r
             ELSE NestedMultiFnStops(validators, i + 1, field, errs, r.st)

\* closure of NestedMulti
NestedMultiFn(validators, i, field, errs, st) ==
    IF i > Len(validators) THEN [errs |-> errs, st |-> st]
    ELSE LET r == Validate(validators[i], field, st)
         IN  NestedMultiFn(validators, i + 1, field,
                           IF ~r.errs.isNil THEN Extend(errs, r.errs) ELSE errs, r.st)

\* closure of Assert
AssertFn(b, msg, field, st) ==
    [errs |-> IF ~b THEN NewErrors(field.Name, msg) ELSE NilErrors,
     st   |-> Logged(st, "Assert", field.Name)]

\* Lazy as it would be if it kept the validator of the first call of f
LazyFnMemoized(f, field, st) ==
    IF st.fc[f.id] = 0
    THEN LET c == CallFactory(f, st) IN Validate(c.ret, field, c.st)
    ELSE Validate(FactoryResult(f, 0), field, st)

\* Lazy as it would be if it ran f and the validator on the first call only
LazyFnFirstCallOnly(f, field, st) ==
    IF st.fc[f.id] = 0
    THEN LET c == CallFactory(f, st) IN Validate(c.ret, field, c.st)
    ELSE [errs |-> NilErrors, st |-> st]

\* closure of Lazy
LazyFn(f, field, st) ==
    LET c == CallFactory(f, st)
    IN  Validate(c.ret, field, c.st)

\* the switch as it would be if a present optional were valid only when the
\* value it points to is nonzero
NonzeroSwitchLooksInside(cell) ==
    CASE cell.T \notin BaseTypes -> [case |-> "default", valid |-> FALSE]
      [] cell.shape = "*T" ->
            [case |-> "value", valid |-> cell.val # ZeroValue(cell.T)]
      [] cell.shape = "**T" ->
            [case  |-> "value",
             valid |-> cell.val.present /\ cell.val.elem # ZeroValue(cell.T)]
      [] cell.shape = "*[]T" -> [case |-> "value", valid |-> Len(cell.val) # 0]

\* the type switch of Nonzero: which case is taken ("default" for a type it
\* has no case for) and the value the case gives to valid
NonzeroSwitch(cell) ==
    CASE cell.T \notin BaseTypes -> [case |-> "default", valid |-> FALSE]
      [] cell.shape = "*T" ->
            [case  |-> "value",
             valid |-> IF cell.T = "time.Time" THEN ~IsZero(cell.val)
                       ELSE cell.val # ZeroValue(cell.T)]
      [] cell.shape = "**T"  -> [case |-> "value", valid |-> cell.val.present]
      [] cell.shape = "*[]T" -> [case |-> "value", valid |-> Len(cell.val) # 0]

\* closure of Nonzero
NonzeroFn(msg, field, st) ==
    LET sw == NonzeroSwitch(st.mem[field.ValuePtr])
        st1 == Logged(st, "Nonzero", field.Name)
    IN  IF sw.case = "default"
        THEN [errs |-> NewErrors(field.Name, "of unrecognized type"), st |-> st1]
        ELSE [errs |-> IF ~sw.valid THEN NewErrors(field.Name, msg) ELSE NilErrors,
              st   |-> Deref(st1, field.ValuePtr)]

\* the switch as it would be if max were excluded from the range
LenSwitchExcludesMax(cell, min, max) ==
    CASE cell.T \notin BaseTypes -> [case |-> "default", valid |-> FALSE]
      [] cell.shape = "*T" /\ cell.T # "string" -> [case |-> "cannot", valid |-> FALSE]
      [] cell.shape = "**T" -> [case |-> "cannot", valid |-> FALSE]
      [] OTHER -> LET l == Len(cell.val)
                  IN  [case |-> "length", valid |-> l >= min /\ l < max]

\* the type switch of Len: which case is taken ("cannot" for the first case
\* list, "default" for a type it has no case for) and the value given to valid
LenSwitch(cell, min, max) ==
    CASE cell.T \notin BaseTypes -> [case |-> "default", valid |-> FALSE]
      [] cell.shape = "*T" /\ cell.T # "string" -> [case |-> "cannot", valid |-> FALSE]
      [] cell.shape = "**T" -> [case |-> "cannot", valid |-> FALSE]
      [] OTHER -> LET l == Len(cell.val)
                  IN  [case |-> "length", valid |-> l >= min /\ l <= max]

\* closure of Len
LenFn(min, max, msg, field, st) ==
    LET sw == LenSwitch(st.mem[field.ValuePtr], min, max)
        st1 == Logged(st, "Len", field.Name)
    IN  CASE sw.case = "cannot" ->
               [errs |-> NewErrors(field.Name, "cannot use validator 'Len'"), st |-> st1]
          [] sw.case = "default" ->
               [errs |-> NewErrors(field.Name, "of an unrecognized type"), st |-> st1]
          [] OTHER ->
               [errs |-> IF ~sw.valid THEN NewErrors(field.Name, msg) ELSE NilErrors,
                st   |-> Deref(st1, field.ValuePtr)]

\* the Validate method of funcValidator: run the closure
Validate(v, field, st) ==
    LET c == v.f
    IN  CASE c.fn = "All"         -> AllFn(c.validators, 1, field, st)
          [] c.fn = "Any"         -> AnyFn(c.validators, 1, field, NilErrors, st)
          [] c.fn = "Nested"      -> NestedFn(c.schema, field, st)
          [] c.fn = "NestedMulti" -> NestedMultiFn(c.validators, 1, field, NilErrors, st)
          [] c.fn = "Assert"      -> AssertFn(c.b, c.msg, field, st)
          [] c.fn = "Lazy"        -> LazyFn(c.factory, field, st)
          [] c.fn = "Nonzero"     -> NonzeroFn(c.msg, field, st)
          [] c.fn = "Len"         -> LenFn(c.min, c.max, c.msg, field, st)

\* NestedMulti(f): f is called here, once; returns the validator and the state
NestedMulti(f, st) ==
    LET c == CallFactory(f, st)
        schemas == c.ret
        validators == [i \in 1..Len(schemas) |-> Nested(schemas[i])]
    IN  [v  |-> FromFunc([fn |-> "NestedMulti", validators |-> validators]),
         st |-> c.st]


(* ------------------------- inputs of the calls ------------------------ *)
\* the cells of memory the value pointers refer to
StringCell == 1
IntCell == 2
StructCell == 3
Addrs == {StringCell, IntCell, StructCell}

Cell(shape, T, val) == [shape |-> shape, T |-> T, val |-> val]

\* as in the example program: a string, an int and a struct
ExampleMem ==
    (StringCell :> Cell("*T", "string", "")) @@ (IntCell :> Cell("*T", "int", 0))
        @@ (StructCell :> Cell("*T", "Address", "struct"))

MsgArgs == {<<>>, <<"custom">>, <<"custom", "other">>}

OuterFields == {F("address", StructCell), F("name", StringCell)}

\* as in the example program, two fields may share a value pointer
InnerFields == {F("city", StringCell), F("country", StringCell), F("country", IntCell)}

Schemas(fields, pool, n) ==
    UNION {[D -> pool] : D \in {D \in SUBSET fields : Cardinality(D) <= n}}

LeafPool == {Nonzero(<<>>), LenValidator(1, MaxBound, <<"custom">>)}

\* factory functions given to Lazy: one that returns the same validator on
\* every call and one whose result depends on what it captured
LazyFactories ==
    {[id |-> "fixed", rets |-> <<Nonzero(<<>>)>>],
     [id |-> "varying", rets |-> <<AssertValidator(TRUE, <<>>), Nonzero(<<"custom">>)>>]}

\* factory functions given to NestedMulti
MultiFactories ==
    {[id |-> "multi", rets |-> <<list>>] :
        list \in UNION {[1..n -> Schemas({F("city", StringCell), F("country", IntCell)},
                                         {Nonzero(<<>>)}, MaxEntries)] :
                            n \in 0..MaxChildren}}

FactoryIds == {"fixed", "varying", "multi"}

ChildPool ==
    LeafPool \cup {Lazy([id |-> "varying",
                         rets |-> <<AssertValidator(TRUE, <<>>), Nonzero(<<"custom">>)>>]),
                   Nested(F("city", StringCell) :> Nonzero(<<>>))}

ChildLists == UNION {[1..n -> ChildPool] : n \in 0..MaxChildren}

InnerPool == {Nonzero(<<>>), Nested(F("zip", IntCell) :> LenValidator(1, MaxBound, <<>>))}

(* ------------------------------- state -------------------------------- *)
VARIABLES
    mem,        \* the values behind the value pointers
    v,          \* the validator the program built
    args,       \* the constructor that ran and the msgs it was given
    panicked,   \* the constructor panicked
    fc,         \* calls of each factory so far
    nvalidate,  \* Validate calls so far
    called,     \* a Validate call has returned and no value was stored since
    \* the record of that call, kept while called holds:
    field,      \* the field it was given
    result,     \* the Errors it returned
    before,     \* fc when it started
    log,        \* leaf closures and factories it invoked, in order
    reads,      \* pointers it dereferenced
    repeat      \* the call before it had the same field and the same memory

vars == <<mem, v, args, panicked, fc, field, result, before, log, reads, nvalidate,
          called, repeat>>

NoValidator == FromFunc([fn |-> "none"])

Built == v # NoValidator

NoField == F("", StructCell)

NoCalls == [id \in FactoryIds |-> 0]

\* no call on record
NoCall ==
    /\ called = FALSE
    /\ field = NoField
    /\ result = NilErrors
    /\ before = NoCalls
    /\ log = <<>>
    /\ reads = {}
    /\ repeat = FALSE

InitRest ==
    /\ v = NoValidator
    /\ args = [ctor |-> "none", msgs |-> <<>>]
    /\ panicked = FALSE
    /\ fc = NoCalls
    /\ nvalidate = 0
    /\ NoCall

Init ==
    /\ mem = ExampleMem
    /\ InitRest

\* the first cell holds a value of any pointer type
InitLeaf ==
    /\ \E shape \in Shapes, T \in BaseTypes \cup OtherTypes :
         \E val \in CellValues(shape, T) :
            mem = [ExampleMem EXCEPT ![StringCell] = Cell(shape, T, val)]
    /\ InitRest

(* ------------------------------ actions ------------------------------- *)
\* the program has built no validator yet
CanConstruct == ~Built /\ ~panicked

\* what a constructor call that returns r (a validator or a panic) leaves
Constructed(ctor, msgs, r) ==
    /\ args' = [ctor |-> ctor, msgs |-> msgs]
    /\ panicked' = IsPanic(r)
    /\ v' = IF IsPanic(r) THEN v ELSE r

ConstructAssert ==
    /\ CanConstruct
    /\ \E b \in BOOLEAN, msgs \in MsgArgs :
          Constructed("Assert", msgs, AssertValidator(b, msgs))
    /\ UNCHANGED <<mem, fc, field, result, before, log, reads, nvalidate, called, repeat>>

ConstructNonzero ==
    /\ CanConstruct
    /\ \E msgs \in MsgArgs : Constructed("Nonzero", msgs, Nonzero(msgs))
    /\ UNCHANGED <<mem, fc, field, result, before, log, reads, nvalidate, called, repeat>>

ConstructLen ==
    /\ CanConstruct
    /\ \E min \in 0..MaxBound, max \in 0..MaxBound, msgs \in MsgArgs :
          Constructed("Len", msgs, LenValidator(min, max, msgs))
    /\ UNCHANGED <<mem, fc, field, result, before, log, reads, nvalidate, called, repeat>>

ConstructAll ==
    /\ CanConstruct
    /\ \E vs \in ChildLists : Constructed("All", <<>>, All(vs))
    /\ UNCHANGED <<mem, fc, field, result, before, log, reads, nvalidate, called, repeat>>

\* And is the function value All, so it is All that runs
ConstructAnd ==
    /\ CanConstruct
    /\ \E vs \in ChildLists : Constructed("All", <<>>, And(vs))
    /\ UNCHANGED <<mem, fc, field, result, before, log, reads, nvalidate, called, repeat>>

ConstructAny ==
    /\ CanConstruct
    /\ \E vs \in ChildLists : Constructed("Any", <<>>, AnyValidator(vs))
    /\ UNCHANGED <<mem, fc, field, result, before, log, reads, nvalidate, called, repeat>>

\* Or is the function value Any, so it is Any that runs
ConstructOr ==
    /\ CanConstruct
    /\ \E vs \in ChildLists : Constructed("Any", <<>>, Or(vs))
    /\ UNCHANGED <<mem, fc, field, result, before, log, reads, nvalidate, called, repeat>>

ConstructLazy ==
    /\ CanConstruct
    /\ \E f \in LazyFactories : Constructed("Lazy", <<>>, Lazy(f))
    /\ UNCHANGED <<mem, fc, field, result, before, log, reads, nvalidate, called, repeat>>

ConstructNested ==
    /\ CanConstruct
    /\ \E s \in Schemas(InnerFields, InnerPool, MaxEntries) :
          Constructed("Nested", <<>>, Nested(s))
    /\ UNCHANGED <<mem, fc, field, result, before, log, reads, nvalidate, called, repeat>>

ConstructNestedMulti ==
    /\ CanConstruct
    /\ \E f \in MultiFactories :
        LET r == NestedMulti(f, [fc |-> fc, log |-> <<>>])
        IN  /\ args' = [ctor |-> "NestedMulti", msgs |-> <<>>]
            /\ v' = r.v
            /\ fc' = r.st.fc
            /\ UNCHANGED <<mem, panicked, field, result, before, log, reads, nvalidate,
                           called, repeat>>

RECURSIVE RangeLoops(_)
\* the Schemas a Validate call of validator w may range over: how many of
\* them have several entries (count), and the most entries of one (size)
RangeLoops(w) ==
    LET c == w.f
        Of(ws) == {RangeLoops(ws[i]) : i \in DOMAIN ws}
        Sum(rs) == LET S[i \in 0..Len(rs)] ==
                           IF i = 0 THEN 0 ELSE S[i - 1] + RangeLoops(rs[i]).count
                   IN  S[Len(rs)]
        Most(ns) == IF ns = {} THEN 0 ELSE CHOOSE m \in ns : \A n \in ns : n <= m
        Inner(schema) == LET keys == KeyList(DOMAIN schema)
                         IN  [i \in DOMAIN keys |-> schema[keys[i]]]
    IN  CASE c.fn \in {"All", "Any", "NestedMulti"} ->
                [count |-> Sum(c.validators),
                 size  |-> Most({r.size : r \in Of(c.validators)})]
          [] c.fn = "Nested" ->
                LET n == Cardinality(DOMAIN c.schema)
                IN  [count |-> (IF n >= 2 THEN 1 ELSE 0) + Sum(Inner(c.schema)),
                     size  |-> Most({n} \cup {r.size : r \in Of(Inner(c.schema))})]
          [] c.fn = "Lazy" ->
                [count |-> Most({r.count : r \in Of(c.factory.rets)}),
                 size  |-> Most({r.size : r \in Of(c.factory.rets)})]
          [] OTHER -> [count |-> 0, size |-> 0]

\* the orders the range loops of one Validate call of w can take
OrderSeqs(w) == [1..RangeLoops(w).count -> Permutations(1..RangeLoops(w).size)]

CallState(ords) == [mem |-> mem, fc |-> fc, ords |-> ords, log |-> <<>>, reads |-> {}]

\* the program calls v.Validate(f)
CallValidate ==
    /\ Built
    /\ nvalidate < MaxCalls
    /\ \E f \in OuterFields, ords \in OrderSeqs(v) :
        LET r == Validate(v, f, CallState(ords))
        IN  /\ result' = r.errs
            /\ fc' = r.st.fc
            /\ log' = r.st.log
            /\ reads' = r.st.reads
            /\ before' = fc
            /\ field' = f
            /\ nvalidate' = nvalidate + 1
            /\ called' = TRUE
            /\ repeat' = (called /\ f = field)
            /\ UNCHANGED <<mem, v, args, panicked>>

\* the program stores a new value of the cell's type in a cell; the record of
\* the last call is dropped, as it no longer describes the memory
Store ==
    /\ Built
    /\ nvalidate < MaxCalls
    /\ \E a \in Addrs :
        \E val \in CellValues(mem[a].shape, mem[a].T) :
            /\ val # mem[a].val
            /\ mem' = [mem EXCEPT ![a].val = val]
            /\ called' = FALSE
            /\ field' = NoField
            /\ result' = NilErrors
            /\ before' = NoCalls
            /\ log' = <<>>
            /\ reads' = {}
            /\ repeat' = FALSE
            /\ UNCHANGED <<v, args, panicked, fc, nvalidate>>

NextLeaf ==
    \/ ConstructAssert
    \/ ConstructNonzero
    \/ ConstructLen
    \/ CallValidate
    \/ Store

Next ==
    \/ NextLeaf
    \/ ConstructAll
    \/ ConstructAnd
    \/ ConstructAny
    \/ ConstructOr
    \/ ConstructLazy
    \/ ConstructNested
    \/ ConstructNestedMulti

Spec == Init /\ [][Next]_vars

SpecLeaf == InitLeaf /\ [][NextLeaf]_vars


(* ------------------ the last call, seen from outside ------------------- *)
\* the state the call on record started in, with range orders ords
StartState(ords) ==
    [mem |-> mem, fc |-> before, ords |-> ords, log |-> <<>>, reads |-> {}]

\* the children vs run one after the other on f from state st, none skipped:
\* R[i] is what vs[i] returns when vs[1..i-1] have run before it
RunEach(vs, f, st) ==
    LET R[i \in 1..Len(vs)] == Validate(vs[i], f, IF i = 1 THEN st ELSE R[i - 1].st)
    IN  R

\* the error records of R[1..n], one collection after the other
Concat(R, n) ==
    LET C[i \in 0..n] == IF i = 0 THEN <<>> ELSE C[i - 1] \o R[i].errs.recs
    IN  C[n]

First(S) == CHOOSE k \in S : \A j \in S : k <= j

\* the call on record left the effects (factory calls, log, reads) of run r
EffectsOf(r) == fc = r.st.fc /\ log = r.st.log /\ reads = r.st.reads

Top(fn) == Built /\ v.f.fn = fn

(* -------------------------------- C1 ---------------------------------- *)
AllContract(ords) ==
    LET vs == v.f.validators
        R == RunEach(vs, field, StartState(ords))
        failing == {i \in 1..Len(vs) : ~R[i].errs.isNil}
    IN  /\ result.isNil <=> failing = {}
        /\ failing = {} =>
              /\ result = NilErrors
              /\ IF Len(vs) = 0 THEN EffectsOf([st |-> StartState(<<>>)])
                 ELSE EffectsOf(R[Len(vs)])
        /\ failing # {} =>
              /\ result = R[First(failing)].errs
              /\ EffectsOf(R[First(failing)])

\* C1: a call of All(vs...) or And(vs...) runs the children in order up to the
\* first one that fails, returns exactly that child's errors and runs no child
\* after it; it returns nil iff every child succeeds (so for no children).
C1_AllFirstFailure ==
    (Top("All") /\ called) => \E ords \in OrderSeqs(v) : AllContract(ords)

\* a call of All whose first two children both fail, with different errors
C1_Witness ==
    /\ Top("All") /\ called /\ Len(v.f.validators) >= 2
    /\ LET R == RunEach(v.f.validators, field, StartState(<<>>))
       IN  /\ ~R[1].errs.isNil /\ ~R[2].errs.isNil
           /\ R[1].errs # R[2].errs
           /\ result = R[1].errs

(* -------------------------------- C2 ---------------------------------- *)
AnyContract(ords) ==
    LET vs == v.f.validators
        n == Len(vs)
        R == RunEach(vs, field, StartState(ords))
        passing == {i \in 1..n : R[i].errs.isNil}
    IN  /\ n > 0 => (result.isNil <=> passing # {})
        /\ n = 0 => result = NilErrors /\ EffectsOf([st |-> StartState(<<>>)])
        /\ passing # {} =>
              /\ result = NilErrors
              /\ EffectsOf(R[First(passing)])
        /\ (n > 0 /\ passing = {}) =>
              /\ result = [isNil |-> FALSE, recs |-> Concat(R, n)]
              /\ EffectsOf(R[n])

\* C2: a call of Any(vs...) with children returns nil iff some child succeeds
\* and stops at the first child that succeeds; when every child fails it
\* returns the errors of all children, in the order they ran; Any() returns nil.
C2_AnyCollectsAll ==
    (Top("Any") /\ called) => \E ords \in OrderSeqs(v) : AnyContract(ords)

\* a call of Any whose two children both fail: both collections are returned
C2_Witness ==
    /\ Top("Any") /\ called /\ Len(v.f.validators) = 2
    /\ LET R == RunEach(v.f.validators, field, StartState(<<>>))
       IN  /\ ~R[1].errs.isNil /\ ~R[2].errs.isNil
           /\ R[1].errs # R[2].errs
           /\ result.recs = R[1].errs.recs \o R[2].errs.recs

(* -------------------------------- C3 ---------------------------------- *)
NestedMultiContract(ords) ==
    LET vs == v.f.validators
        n == Len(vs)
        R == RunEach(vs, field, StartState(ords))
    IN  /\ result.recs = Concat(R, n)
        /\ result.isNil <=> \A i \in 1..n : R[i].errs.isNil
        /\ IF n = 0 THEN EffectsOf([st |-> StartState(<<>>)]) ELSE EffectsOf(R[n])

\* C3: NestedMulti(f) calls f once, when it is built, and no Validate call
\* calls it again; every Validate call runs all the Nested children in order,
\* a failing child not stopping the later ones, and returns their errors one
\* after the other, nil only if every child's schema validates cleanly.
C3_NestedMultiCollects ==
    Top("NestedMulti") =>
        /\ fc["multi"] = 1
        /\ \A i \in DOMAIN v.f.validators : v.f.validators[i].f.fn = "Nested"
        /\ called =>
              /\ before["multi"] = 1
              /\ \E ords \in OrderSeqs(v) : NestedMultiContract(ords)

\* a second call of a NestedMulti whose first child fails and is not the last
C3_Witness ==
    /\ Top("NestedMulti") /\ called /\ nvalidate = 2
    /\ Len(v.f.validators) >= 2
    /\ \E ords \in OrderSeqs(v) :
          LET R == RunEach(v.f.validators, field, StartState(ords))
          IN  /\ ~R[1].errs.isNil /\ ~R[2].errs.isNil
              /\ result.recs = Concat(R, Len(v.f.validators))
              /\ Len(result.recs) > Len(R[1].errs.recs)

(* -------------------------------- C4 ---------------------------------- *)
\* C4: Lazy(f) does not call f when it is built; each Validate call calls f
\* once, so n calls of Validate make n calls of f, and returns what the
\* validator this call of f produced returns for the same field.
C4_LazyCallsFactoryPerCall ==
    Top("Lazy") =>
        LET f == v.f.factory
        IN  /\ fc[f.id] = nvalidate
            /\ called =>
                  LET made == FactoryResult(f, before[f.id])
                      st == [StartState(<<>>) EXCEPT !.fc[f.id] = @ + 1]
                  IN  /\ fc[f.id] = before[f.id] + 1
                      /\ result = Validate(made, field, st).errs
                      /\ Len(SelectSeq(log, LAMBDA e : e.op = "factory")) = 1

\* the second call of a Lazy whose factory made another validator than on the
\* first call
C4_Witness ==
    /\ Top("Lazy") /\ called /\ nvalidate = 2 /\ fc[v.f.factory.id] = 2
    /\ FactoryResult(v.f.factory, 1) # FactoryResult(v.f.factory, 0)
    /\ ~result.isNil


(* -------------------------------- C5 ---------------------------------- *)
RECURSIVE Pointers(_, _)
\* the pointers validator w can dereference when run on a field whose value
\* pointer is ptr
Pointers(w, ptr) ==
    LET c == w.f
        Each(ws) == UNION {Pointers(ws[i], ptr) : i \in DOMAIN ws}
    IN  CASE c.fn \in {"All", "Any", "NestedMulti"} -> Each(c.validators)
          [] c.fn = "Nested" ->
                UNION {Pointers(c.schema[g], g.ValuePtr) : g \in DOMAIN c.schema}
          [] c.fn = "Lazy" -> Each(c.factory.rets)
          [] c.fn \in {"Nonzero", "Len"} -> {ptr}
          [] OTHER -> {}

HasPrefix(name, prefix) ==
    Len(name) >= Len(prefix) /\ SubSeq(name, 1, Len(prefix)) = prefix

\* C5: a call of Nested(schema) on an outer field validates a schema with one
\* entry per inner entry, named outer.Name + "." + inner.Name, with the inner
\* entry's value pointer and validator; it returns what the top-level Validate
\* returns for that schema, so every error carries the dotted name, and the
\* outer field's own value is not inspected.
C5_NestedDottedSchema ==
    (Top("Nested") /\ called) =>
        LET schema == v.f.schema
            key(g) == F(field.Name \o "." \o g.Name, g.ValuePtr)
            built == NestedSchema(schema, field)
        IN  /\ DOMAIN built = {key(g) : g \in DOMAIN schema}
            /\ Cardinality(DOMAIN built) = Cardinality(DOMAIN schema)
            /\ \A g \in DOMAIN schema : built[key(g)] = schema[g]
            /\ \E ords \in OrderSeqs(v) :
                  LET r == ValidateSchema(built, StartState(ords))
                  IN  result = r.errs /\ EffectsOf(r)
            /\ \A i \in DOMAIN result.recs :
                  \E g \in DOMAIN schema :
                      HasPrefix(result.recs[i].Field, field.Name \o "." \o g.Name)
            /\ reads \subseteq
                  UNION {Pointers(schema[g], g.ValuePtr) : g \in DOMAIN schema}

\* the outer field "address" with the inner fields "city" and "country", which
\* share a value pointer and both fail
C5_Witness ==
    /\ Top("Nested") /\ called
    /\ field = F("address", StructCell)
    /\ F("city", StringCell) \in DOMAIN v.f.schema
    /\ F("country", StringCell) \in DOMAIN v.f.schema
    /\ {result.recs[i].Field : i \in DOMAIN result.recs}
          = {"address.city", "address.country"}
    /\ StructCell \notin reads

(* -------------------------------- C10 --------------------------------- *)
\* C10: what a Validate call returns is either nil, with no error record, or
\* a collection of at least one error record; never a collection that is
\* present but empty.
C10_NilOrNonEmpty ==
    called => (result.isNil <=> Len(result.recs) = 0)

\* Any() with no children has been called and returned nil
C10_WitnessAny == Top("Any") /\ called /\ Len(v.f.validators) = 0 /\ result = NilErrors


(* ------------------------- C6, C7, C8: leaves ------------------------- *)
\* the value the last call's field points to
Target == mem[field.ValuePtr]

\* the message the constructor on record selected from its msgs
DefaultMsg(ctor) ==
    CASE ctor = "Assert"  -> "is invalid"
      [] ctor = "Nonzero" -> "is zero valued"
      [] ctor = "Len"     -> "with an invalid length"

Selected == IF Len(args.msgs) = 0 THEN DefaultMsg(args.ctor) ELSE args.msgs[1]

OneError(msg) == NewErrors(field.Name, msg)

Recognized == Target.T \in BaseTypes
Scalar == Recognized /\ Target.shape = "*T"
Optional == Recognized /\ Target.shape = "**T"
Sequence == Recognized /\ Target.shape = "*[]T"

\* C6: Nonzero on a scalar is valid iff the value differs from its kind's zero
\* value; on an optional scalar iff it is present, whatever it holds; on a
\* sequence iff its length is nonzero; an invalid value gives one error for
\* the field with the custom message or "is zero valued"; an unrecognized
\* kind always gives "of unrecognized type", whatever the custom message.
C6_NonzeroByKind ==
    (Top("Nonzero") /\ called) =>
        LET valid == CASE Scalar   -> Target.val # ZeroValue(Target.T)
                       [] Optional -> Target.val.present
                       [] Sequence -> Len(Target.val) # 0
                       [] OTHER    -> FALSE
        IN  /\ Recognized => result = IF valid THEN NilErrors ELSE OneError(Selected)
            /\ ~Recognized => result = OneError("of unrecognized type")

\* a present optional that holds a zero value is valid
C6_Witness ==
    /\ Top("Nonzero") /\ called /\ Optional
    /\ Target.val.present /\ Target.val.elem = ZeroValue(Target.T)
    /\ result = NilErrors

CannotUseLen == OneError("cannot use validator 'Len'")

Measured == Sequence \/ (Scalar /\ Target.T = "string")

NullableString == Optional /\ Target.T = "string"

\* what C7 says of the kinds other than nullable string
LenOtherKinds(notApplicable) ==
    LET l == Len(Target.val)
        min == v.f.min
        max == v.f.max
    IN  /\ notApplicable => result = CannotUseLen
        /\ Measured =>
              /\ result = IF min <= l /\ l <= max THEN NilErrors ELSE OneError(Selected)
              /\ min > max => ~result.isNil
        /\ ~Recognized => result = OneError("of an unrecognized type")

\* C7 as claimed: nullable string is excepted from the kinds Len cannot be
\* used on.
C7_NullableStringExcepted ==
    (Top("Len") /\ called) =>
        /\ LenOtherKinds((Scalar \/ Optional) /\ Target.T # "string")
        /\ NullableString => result # CannotUseLen

\* C7, amended: Len fails with "cannot use validator `Len`" on numeric and
\* boolean scalars, on date-time and on every nullable kind, nullable string
\* included (plain string is the one scalar excepted), whatever min, max and
\* the value are; on a string and on a sequence it is valid iff
\* min <= length <= max and otherwise gives one error with the custom message
\* or "with an invalid length"; on an unrecognized kind it fails with
\* "of an unrecognized type".
C7_LenByKind ==
    (Top("Len") /\ called) =>
        LenOtherKinds(Optional \/ (Scalar /\ Target.T # "string"))

\* Len has been called on a nullable string that is present
C7_Witness ==
    /\ Top("Len") /\ called /\ NullableString /\ Target.val.present
    /\ result = CannotUseLen

\* C8: Assert, Nonzero and Len select the message when they are built: the
\* default for no message, the message for one, and a panic for more than
\* one, which returns no validator, so that no Validate call follows; a kind
\* mismatch does not abort: Validate returns it as one error for the field.
C8_MessageSelection ==
    args.ctor \in {"Assert", "Nonzero", "Len"} =>
        /\ Len(args.msgs) <= 1 =>
              /\ ~panicked /\ Top(args.ctor)
              /\ v.f.msg = Selected
        /\ Len(args.msgs) > 1 => panicked /\ ~Built /\ nvalidate = 0 /\ ~called
        /\ (called /\ Top("Assert")) =>
              result = IF v.f.b THEN NilErrors ELSE OneError(Selected)
        /\ (called /\ Top("Len") /\ ~Measured) =>
              /\ ~panicked
              /\ result \in {CannotUseLen, OneError("of an unrecognized type")}
        /\ (called /\ Top("Nonzero") /\ ~Recognized) =>
              ~panicked /\ result = OneError("of unrecognized type")

\* Len was given two messages: it panicked and built nothing
C8_Witness == panicked /\ args.ctor = "Len" /\ Len(args.msgs) = 2 /\ ~Built

(* -------------------------------- C9 ---------------------------------- *)
\* C9 as claimed: a Validate call that repeats the one before it, on the same
\* field with the memory unchanged, returns the same error collection.
C9_SameResultTwice ==
    [][(called /\ repeat' /\ nvalidate' = nvalidate + 1) => result' = result]_vars

RECURSIVE Stable(_)
\* every factory given to a Lazy inside w returns the same validator on every
\* call
Stable(w) ==
    LET c == w.f
        Each(ws) == \A i \in DOMAIN ws : Stable(ws[i])
    IN  CASE c.fn \in {"All", "Any", "NestedMulti"} -> Each(c.validators)
          [] c.fn = "Nested" -> \A g \in DOMAIN c.schema : Stable(c.schema[g])
          [] c.fn = "Lazy" ->
                /\ \A i \in DOMAIN c.factory.rets : c.factory.rets[i] = c.factory.rets[1]
                /\ Each(c.factory.rets)
          [] OTHER -> TRUE

Count(recs, e) == Cardinality({i \in DOMAIN recs : recs[i] = e})

\* the same error records, each as many times, in whatever order
SameRecords(a, b) ==
    /\ a.isNil = b.isNil
    /\ Len(a.recs) = Len(b.recs)
    /\ \A i \in DOMAIN a.recs : Count(a.recs, a.recs[i]) = Count(b.recs, a.recs[i])

\* C9, amended: when every factory given to Lazy returns the same validator
\* on every call, a Validate call that repeats the one before it returns the
\* same error records; they come in the same order too when no Schema with
\* several entries is ranged over.
C9_SameRecordsTwice ==
    [][(called /\ repeat' /\ nvalidate' = nvalidate + 1 /\ Stable(v)) =>
          /\ SameRecords(result', result)
          /\ RangeLoops(v).count = 0 => result' = result]_vars

\* a repeated call that returned several error records
C9_Witness ==
    called /\ repeat /\ Stable(v) /\ Len(result.recs) >= 2

====
